---------------------------- MODULE Spec2Model ----------------------------
(***************************************************************************)
(* Model of examples/rust/hello.rs: the two exported guest functions       *)
(* alloc(len) and handle(ptr, len) of a WebAssembly module, the guest's    *)
(* linear memory they act on, and the host that calls them.                *)
(*                                                                         *)
(* Bytes are integers 0..255.  Guest addresses and lengths (usize) are     *)
(* naturals; a u64 is a tuple of four 16-bit limbs, most significant       *)
(* first, so that the shift and the or of the packed return value keep     *)
(* their 64-bit width.                                                     *)
(***************************************************************************)
EXTENDS Integers, Sequences, FiniteSets

(***************************************************************************)
(* Bounds of the model.                                                    *)
(***************************************************************************)
MaxInputLen == 2      \* bytes of alphabet input the host stages in a run
MaxBuffers  == 3      \* buffers handed out (by alloc and by handle) in a run
MaxPad      == 1      \* bytes the allocator may put before each block
HeapBase    == 8      \* lowest address the allocator hands out
HeapSize    == 196    \* bytes of linear memory available to the allocator

(***************************************************************************)
(* Bytes the host writes.  Quote and backslash are the two bytes the       *)
(* escaping is about; 0x80 is a lone continuation byte.                    *)
(***************************************************************************)
Quote     == 34
Backslash == 92
Bytes     == {Quote, Backslash, 128}

\* What the cells of a block never written may turn out to hold when they are
\* read: zeroes (fresh linear memory), or a byte that never occurs in UTF-8.
GarbageBytes == {0, 255}

\* Two inputs of their own: the ASCII text of the end-to-end scenario, and a
\* well-formed two-byte sequence (U+00C0).
World  == <<87, 111, 114, 108, 100>>
AGrave == <<195, 128>>

RECURSIVE SeqsUpTo(_, _)
SeqsUpTo(S, n) ==
    IF n = 0 THEN {<<>>}
    ELSE LET shorter == SeqsUpTo(S, n - 1)
         IN  shorter \cup {Append(s, b) : s \in shorter, b \in S}

\* The inputs the host writes into a buffer it got from alloc.
Inputs == SeqsUpTo(Bytes, MaxInputLen) \cup {World, AGrave}

\* The lengths the host asks alloc for.
AllocLens == (0..MaxInputLen) \cup {Len(World)}

(***************************************************************************)
(* 64-bit words as four 16-bit limbs.                                      *)
(***************************************************************************)
Limb == 65536

\* usize as u64, for a usize below 2^31.
AsU64(n) == <<0, 0, n \div Limb, n % Limb>>

RECURSIVE BitOr(_, _)
BitOr(a, b) ==
    IF a = 0 THEN b
    ELSE IF b = 0 THEN a
    ELSE (IF a % 2 = 1 \/ b % 2 = 1 THEN 1 ELSE 0)
         + 2 * BitOr(a \div 2, b \div 2)

\* x << 32 on a u64: the two high limbs are shifted out.
Shl32(x) == <<x[3], x[4], 0, 0>>

\* x | y on u64.
Or64(x, y) == [i \in 1..4 |-> BitOr(x[i], y[i])]

\* A wrong packing: the address shifted by 16 bits only.
PackShift16(out_ptr, out_len) ==
    Or64(<<out_ptr[2], out_ptr[3], out_ptr[4], 0>>, out_len)

\* ((out_ptr as u64) << 32) | (out_len as u64)
Pack(out_ptr, out_len) == Or64(Shl32(out_ptr), out_len)

(***************************************************************************)
(* str::from_utf8: the well-formed byte sequences of UTF-8.                *)
(***************************************************************************)
IsCont(b) == b >= 128 /\ b <= 191

Utf8Width(b) ==
    IF b < 128 THEN 1
    ELSE IF b >= 194 /\ b <= 223 THEN 2
    ELSE IF b >= 224 /\ b <= 239 THEN 3
    ELSE IF b >= 240 /\ b <= 244 THEN 4
    ELSE 0

\* The second byte of a three- or four-byte sequence is restricted by the
\* first (no overlong forms, no surrogates, nothing above U+10FFFF).
SecondOk(first, second) ==
    IF first = 224 THEN second >= 160 /\ second <= 191
    ELSE IF first = 237 THEN second >= 128 /\ second <= 159
    ELSE IF first = 240 THEN second >= 144 /\ second <= 191
    ELSE IF first = 244 THEN second >= 128 /\ second <= 143
    ELSE IsCont(second)

\* A byte that is no continuation byte begins a sequence: its own width is
\* known, the sequence fits, and its other bytes are continuation bytes.
WellFormedAt(s, i) ==
    LET w == Utf8Width(s[i])
    IN  /\ w >= 1
        /\ i + w - 1 <= Len(s)
        /\ w >= 2 => SecondOk(s[i], s[i + 1])
        /\ \A k \in 2..(w - 1) : IsCont(s[i + k])

\* A continuation byte belongs to the sequence begun by the nearest byte
\* before it that is no continuation byte.
CoveredAt(s, i) ==
    \E j \in 1..(i - 1) :
        /\ ~IsCont(s[j])
        /\ i - j < Utf8Width(s[j])
        /\ \A k \in (j + 1)..i : IsCont(s[k])

\* A decoder that refuses the empty slice.
ValidUtf8NonEmpty(s) ==
    /\ Len(s) > 0
    /\ \A i \in 1..Len(s) :
          IF IsCont(s[i]) THEN CoveredAt(s, i) ELSE WellFormedAt(s, i)

\* The slice is a concatenation of well-formed sequences.
ValidUtf8(s) ==
    \A i \in 1..Len(s) :
        IF IsCont(s[i]) THEN CoveredAt(s, i) ELSE WellFormedAt(s, i)

\* The placeholder "{}".
Placeholder == <<123, 125>>

\* A decoder that does not check (from_utf8_unchecked).
FromUtf8Unchecked(input_slice) == input_slice

\* str::from_utf8(input_slice).unwrap_or("{}")
FromUtf8OrDefault(input_slice) ==
    IF ValidUtf8(input_slice) THEN input_slice ELSE Placeholder

(***************************************************************************)
(* str::replace with the pattern "\"" and the replacement "\\\"": every      *)
(* quote becomes backslash, quote.                                         *)
(***************************************************************************)
Escaped(b) == IF b = Quote THEN <<Backslash, Quote>> ELSE <<b>>

\* s[lo..hi] with its quotes replaced; the pattern is one byte long, so the
\* halves of a slice are replaced independently.
RECURSIVE ReplaceRange(_, _, _)
ReplaceRange(s, lo, hi) ==
    IF lo > hi THEN <<>>
    ELSE IF lo = hi THEN Escaped(s[lo])
    ELSE LET mid == (lo + hi) \div 2
         IN  ReplaceRange(s, lo, mid) \o ReplaceRange(s, mid + 1, hi)

\* replacen(.., 1): only the first quote is escaped.
ReplaceFirst(s) ==
    IF \E i \in 1..Len(s) : s[i] = Quote
    THEN LET f == CHOOSE i \in 1..Len(s) :
                      s[i] = Quote /\ \A k \in 1..(i - 1) : s[k] # Quote
         IN  SubSeq(s, 1, f - 1) \o <<Backslash, Quote>>
             \o SubSeq(s, f + 1, Len(s))
    ELSE s

\* An escaper that also doubles backslashes.
RECURSIVE ReplaceBothRange(_, _, _)
ReplaceBothRange(s, lo, hi) ==
    IF lo > hi THEN <<>>
    ELSE IF lo = hi
         THEN (IF s[lo] = Backslash THEN <<Backslash, Backslash>>
               ELSE Escaped(s[lo]))
    ELSE LET mid == (lo + hi) \div 2
         IN  ReplaceBothRange(s, lo, mid) \o ReplaceBothRange(s, mid + 1, hi)

ReplaceBoth(s) == ReplaceBothRange(s, 1, Len(s))

\* input_str.replace("\"", "\\\"")
Replace(s) == ReplaceRange(s, 1, Len(s))

(***************************************************************************)
(* The format string is the raw string literal                             *)
(*   r#"{{\"message\": \"Hello from Rust WASM!\", \"input\": \"{}\"}}"#    *)
(* in which {{ and }} stand for one brace each and every backslash is a    *)
(* byte of the literal.  Prefix is what precedes the {} argument, Suffix   *)
(* what follows it.                                                        *)
(***************************************************************************)
Prefix ==
    <<123, 92, 34, 109, 101, 115, 115, 97, 103, 101, 92, 34, 58, 32,
      92, 34, 72, 101, 108, 108, 111, 32, 102, 114, 111, 109, 32,
      82, 117, 115, 116, 32, 87, 65, 83, 77, 33, 92, 34, 44, 32,
      92, 34, 105, 110, 112, 117, 116, 92, 34, 58, 32, 92, 34>>

Suffix == <<92, 34, 125>>

\* format!(template, escaped)
Format(escaped) == Prefix \o escaped \o Suffix

(***************************************************************************)
(* State.                                                                  *)
(*   mem      linear memory: the cells of the blocks handed out so far,    *)
(*            each a byte or Uninit                                        *)
(*   buffers  the buffers returned so far, in order: [ptr, cap, by]        *)
(*   calls    the handle calls that returned, in order: the reference      *)
(*            passed, the bytes read, the response string built and the    *)
(*            value returned                                               *)
(*   aborted  the instance was terminated by a failed allocation           *)
(*   pad      the bytes the allocator puts before each block               *)
(*   pk       the operands and the result of a packing on its own          *)
(***************************************************************************)
VARIABLES mem, buffers, calls, aborted, pad, pk

vars == <<mem, buffers, calls, aborted, pad, pk>>

\* Vec::with_capacity does not initialise the block.
Uninit == -1

\* Vec::with_capacity(0) allocates nothing: the pointer is
\* NonNull::dangling(), the alignment of u8.
Dangling == 1

Region(ptr, len) == ptr..(ptr + len - 1)

\* alloc without mem::forget: the Vec is dropped on return and its block
\* goes back to the allocator.
LiveDropped(bufs) == {}

\* mem::forget(buf): every block handed out stays reserved for good.
Live(bufs) == {bufs[i] : i \in {j \in DOMAIN bufs : bufs[j].cap > 0}}

Max(S) == CHOOSE x \in S : \A y \in S : y <= x

\* The address the global allocator returns for a block of len bytes, if it
\* has one: pad bytes (its bookkeeping, fixed for an instance) above the
\* highest reserved block, inside the heap.  Nothing is ever freed, so no
\* lower block comes back into use.
AllocAddrs(len) ==
    IF len = 0 THEN {Dangling}
    ELSE LET live == Live(buffers)
             top  == Max({HeapBase} \cup {b.ptr + b.cap : b \in live})
         IN  {a \in {top + pad} : a + len <= HeapBase + HeapSize}

\* The block as alloc leaves it: reserved, its cells not written.
Reserve(m, ptr, len) ==
    [a \in (DOMAIN m) \cup Region(ptr, len) |->
        IF a \in DOMAIN m THEN m[a] ELSE Uninit]

\* A copy that stops one byte short.
CopyShort(m, bytes, dst, n) ==
    [a \in DOMAIN m |->
        IF a \in Region(dst, n - 1) THEN bytes[a - dst + 1] ELSE m[a]]

\* ptr::copy_nonoverlapping(src, dst, n)
CopyNonoverlapping(m, bytes, dst, n) ==
    [a \in DOMAIN m |->
        IF a \in Region(dst, n) THEN bytes[a - dst + 1] ELSE m[a]]

\* slice::from_raw_parts(ptr, len): the bytes read.  A cell never written
\* holds garbage; g is what the garbage turns out to be.
ReadSlice(ptr, len, g) ==
    [k \in 1..len |->
        IF mem[ptr + k - 1] = Uninit THEN g ELSE mem[ptr + k - 1]]

\* The slices a read of [ptr, ptr + len) may yield.
ReadSlices(ptr, len) == {ReadSlice(ptr, len, g) : g \in GarbageBytes}

\* A handler that writes its response over the input buffer.
OutPtrsInPlace(ptr, out_len) == {ptr}

\* let out_ptr = alloc(out_len)
OutPtrs(ptr, out_len) == AllocAddrs(out_len)

\* A response that carries state over from the calls before.
OutputStateful(input_str) ==
    Format(Replace(input_str) \o [i \in 1..Len(calls) |-> 33])

\* let output = format!(.., input_str.replace("\"", "\\\""))
Output(input_str) == Format(Replace(input_str))

PkIdle == [ptr |-> AsU64(0), len |-> AsU64(0), ret |-> AsU64(0), done |-> FALSE]

Init ==
    /\ mem = <<>>
    /\ buffers = <<>>
    /\ calls = <<>>
    /\ aborted = FALSE
    /\ pad \in 0..MaxPad
    /\ pk = PkIdle

\* The bytes of alphabet input the host has staged so far: the capacities
\* it asked alloc for, the buffer for World (asked for once) apart.
RECURSIVE Staged(_)
Staged(bufs) ==
    IF bufs = <<>> THEN 0
    ELSE LET b == bufs[Len(bufs)]
         IN  Staged(SubSeq(bufs, 1, Len(bufs) - 1))
             + (IF b.by = "alloc" /\ b.cap <= MaxInputLen THEN b.cap ELSE 0)

(***************************************************************************)
(* alloc(len), called by the host.  When the allocator finds no block the  *)
(* instance is terminated.  Temporaries of a call (none here, the Strings  *)
(* of handle) are freed before it returns and are not part of the state.   *)
(***************************************************************************)
Alloc(len) ==
    /\ ~aborted
    /\ IF len > MaxInputLen
       THEN \A i \in DOMAIN buffers : buffers[i].cap # len
       ELSE Staged(buffers) + len <= MaxInputLen
    /\ IF AllocAddrs(len) = {}
       THEN /\ aborted' = TRUE
            /\ UNCHANGED <<mem, buffers, calls, pad, pk>>
       ELSE /\ Len(buffers) < MaxBuffers
            /\ \E ptr \in AllocAddrs(len) :
                /\ mem' = Reserve(mem, ptr, len)
                /\ buffers' = Append(buffers,
                       [ptr |-> ptr, cap |-> len, by |-> "alloc"])
            /\ UNCHANGED <<calls, aborted, pad, pk>>

(***************************************************************************)
(* The host writes an input into a buffer it got from alloc and has not    *)
(* written yet.                                                            *)
(***************************************************************************)
HostWrite(i, s) ==
    /\ ~aborted
    /\ buffers[i].by = "alloc"
    /\ Len(s) > 0
    /\ Len(s) = buffers[i].cap
    /\ \A a \in Region(buffers[i].ptr, buffers[i].cap) : mem[a] = Uninit
    /\ mem' = CopyNonoverlapping(mem, s, buffers[i].ptr, Len(s))
    /\ UNCHANGED <<buffers, calls, aborted, pad, pk>>

(***************************************************************************)
(* handle(ptr, len), called by the host with buffer i and its length, as   *)
(* long as the run has buffers left to hand out.  When the allocator finds *)
(* no block for the response the instance is terminated.                   *)
(***************************************************************************)
Handle(i) ==
    /\ ~aborted
    /\ Len(buffers) < MaxBuffers
    /\ LET ptr == buffers[i].ptr
           len == buffers[i].cap
       IN  \E input_slice \in ReadSlices(ptr, len) :
           LET input_str == FromUtf8OrDefault(input_slice)
               output    == Output(input_str)
               out_len   == Len(output)
               out_ptrs  == OutPtrs(ptr, out_len)
           IN  IF out_ptrs = {}
               THEN /\ aborted' = TRUE
                    /\ UNCHANGED <<mem, buffers, calls, pad, pk>>
               ELSE /\ \E out_ptr \in out_ptrs :
                        /\ mem' = CopyNonoverlapping(
                                      Reserve(mem, out_ptr, out_len),
                                      output, out_ptr, out_len)
                        /\ buffers' = Append(buffers,
                               [ptr |-> out_ptr, cap |-> out_len,
                                by |-> "handle"])
                        /\ calls' = Append(calls,
                               [ptr |-> ptr, len |-> len,
                                input |-> input_slice, output |-> output,
                                ret |-> Pack(AsU64(out_ptr), AsU64(out_len))])
                    /\ UNCHANGED <<aborted, pad, pk>>

Next ==
    \/ \E len \in AllocLens : Alloc(len)
    \/ \E i \in DOMAIN buffers : \E s \in Inputs : HostWrite(i, s)
    \/ \E i \in DOMAIN buffers : Handle(i)

Spec == Init /\ [][Next]_vars

(***************************************************************************)
(* The packing on its own, over operands of the full 64-bit width (a       *)
(* build whose usize is 64 bits wide): the operands are drawn at the       *)
(* start, one step packs them.                                             *)
(***************************************************************************)
PackLimbs == {0, 1, 65535}

PackWords == {<<a, b, c, d>> : a \in PackLimbs, b \in PackLimbs,
                               c \in PackLimbs, d \in PackLimbs}

InitPack ==
    /\ mem = <<>>
    /\ buffers = <<>>
    /\ calls = <<>>
    /\ aborted = FALSE
    /\ pad = 0
    /\ \E p \in PackWords, l \in PackWords :
          pk = [ptr |-> p, len |-> l, ret |-> AsU64(0), done |-> FALSE]

PackStep ==
    /\ ~pk.done
    /\ pk' = [pk EXCEPT !.ret = Pack(pk.ptr, pk.len), !.done = TRUE]
    /\ UNCHANGED <<mem, buffers, calls, aborted, pad>>

NextPack == PackStep

SpecPack == InitPack /\ [][NextPack]_vars

(***************************************************************************)
(* The host's side of the convention: it decodes the returned value and    *)
(* reads the response out of linear memory.                                *)
(***************************************************************************)
DecodeAddr(v) == <<0, 0, v[1], v[2]>>     \* v >> 32
DecodeLen(v)  == <<0, 0, v[3], v[4]>>     \* v & 0xFFFFFFFF

Fits32(x) == x[1] = 0 /\ x[2] = 0

ToNat(x) == x[3] * Limb + x[4]

RespAddr(c) == ToNat(DecodeAddr(c.ret))
RespLen(c)  == ToNat(DecodeLen(c.ret))

\* The n cells from address a on, as the host reads them.
MemAt(a, n) ==
    [k \in 1..n |-> IF a + k - 1 \in DOMAIN mem THEN mem[a + k - 1] ELSE Uninit]

\* The response of call c, read through the value it returned.
Response(c) == MemAt(RespAddr(c), RespLen(c))

TemplateLen == Len(Prefix) + Len(Suffix)

\* The part of a response between the template's prefix and suffix.
Embedded(r) == SubSeq(r, Len(Prefix) + 1, Len(r) - Len(Suffix))

Call(i) == calls[i]

QuotesUpTo(s, p) == Cardinality({k \in 1..p : s[k] = Quote})

HasQuote(s) == \E k \in 1..Len(s) : s[k] = Quote

(***************************************************************************)
(* C1.  For every handle call that returned, the value it returned decodes *)
(* (address = v >> 32, length = v & 0xFFFFFFFF) to a region of linear      *)
(* memory that holds exactly the bytes of the response string the call     *)
(* built, and the decoded length is that string's length.                  *)
(***************************************************************************)
C1_PackedDecodesToResponse ==
    \A i \in DOMAIN calls :
        /\ RespLen(Call(i)) = Len(Call(i).output)
        /\ Region(RespAddr(Call(i)), RespLen(Call(i))) \subseteq DOMAIN mem
        /\ Response(Call(i)) = Call(i).output

C1_Witness ==
    \E i \in DOMAIN calls :
        /\ Call(i).input = <<Quote>>
        /\ RespLen(Call(i)) = TemplateLen + 2
        /\ Response(Call(i)) = Call(i).output

(***************************************************************************)
(* C2.  A handle call puts its response in a buffer obtained during the    *)
(* call: the region the returned value names is the one buffer the call    *)
(* added, it does not start at the input's address, it overlaps neither    *)
(* the input nor any cell reserved before the call, and the call leaves    *)
(* the input's bytes as they were.                                         *)
(***************************************************************************)
C2_HandleStep ==
    Len(calls') > Len(calls) =>
        LET c   == calls'[Len(calls')]
            out == buffers'[Len(buffers')]
            reg == Region(out.ptr, out.cap)
        IN  /\ Len(buffers') = Len(buffers) + 1
            /\ out.by = "handle"
            /\ out.ptr = RespAddr(c)
            /\ out.cap = RespLen(c)
            /\ out.ptr # c.ptr
            /\ reg \cap Region(c.ptr, c.len) = {}
            /\ reg \cap DOMAIN mem = {}
            /\ \A a \in Region(c.ptr, c.len) : mem'[a] = mem[a]

C2_FreshResponseBuffer == [][C2_HandleStep]_vars

C2_Witness ==
    \E i \in DOMAIN calls :
        /\ Call(i).input = World
        /\ MemAt(Call(i).ptr, Call(i).len) = World
        /\ RespAddr(Call(i)) # Call(i).ptr

(***************************************************************************)
(* C3.  Escaping of quotes.  ExactlyOneBackslash(e, j): the quote at j is  *)
(* preceded by a backslash that is not itself preceded by a backslash.     *)
(***************************************************************************)
ExactlyOneBackslash(e, j) ==
    /\ j > 1
    /\ e[j - 1] = Backslash
    /\ j > 2 => e[j - 2] # Backslash

\* C3 as claimed: for every (well-formed) input with n quotes, every quote of
\* the embedded portion is preceded by exactly one backslash, and there are
\* n of them.
C3_Original ==
    \A i \in DOMAIN calls :
        ValidUtf8(Call(i).input) =>
            LET s == Call(i).input
                e == Embedded(Response(Call(i)))
            IN  /\ \A j \in 1..Len(e) :
                       e[j] = Quote => ExactlyOneBackslash(e, j)
                /\ Cardinality({j \in 1..Len(e) : e[j] = Quote})
                       = QuotesUpTo(s, Len(s))

\* C3 as amended: for every well-formed input s with n quotes, the embedded
\* portion is s with one backslash put before each quote: it is n bytes
\* longer, byte p of s is found n(p) places further on, n(p) the quotes of s
\* up to p, and a quote has a backslash right before it.  It has exactly n
\* quotes.  A quote is preceded by exactly one backslash if and only if no
\* backslash stands right before it in s.
C3_QuotesPrefixed ==
    \A i \in DOMAIN calls :
        ValidUtf8(Call(i).input) =>
            LET s == Call(i).input
                e == Embedded(Response(Call(i)))
                n == QuotesUpTo(s, Len(s))
            IN  /\ Len(e) = Len(s) + n
                /\ Cardinality({j \in 1..Len(e) : e[j] = Quote}) = n
                /\ \A p \in 1..Len(s) :
                       LET j == p + QuotesUpTo(s, p)
                       IN  /\ e[j] = s[p]
                           /\ s[p] = Quote =>
                                /\ e[j - 1] = Backslash
                                /\ ExactlyOneBackslash(e, j)
                                      <=> (p = 1 \/ s[p - 1] # Backslash)

C3_Witness ==
    \E i \in DOMAIN calls :
        /\ Call(i).input = <<Backslash, Quote>>
        /\ Embedded(Response(Call(i))) = <<Backslash, Backslash, Quote>>

(***************************************************************************)
(* C4.  End to end: the input World gives the response                     *)
(*   {"message": "Hello from Rust WASM!", "input": "World"}                *)
(* in a new buffer, and the returned value decodes to that buffer's        *)
(* address and the response's length.                                      *)
(***************************************************************************)
WorldResponse ==
    <<123, 34, 109, 101, 115, 115, 97, 103, 101, 34, 58, 32,
      34, 72, 101, 108, 108, 111, 32, 102, 114, 111, 109, 32,
      82, 117, 115, 116, 32, 87, 65, 83, 77, 33, 34, 44, 32,
      34, 105, 110, 112, 117, 116, 34, 58, 32, 34>>
    \o World \o <<34, 125>>

C4_WorldEndToEnd ==
    \A i \in DOMAIN calls :
        Call(i).input = World =>
            /\ Call(i).output = WorldResponse
            /\ RespLen(Call(i)) = Len(WorldResponse)
            /\ Response(Call(i)) = WorldResponse
            /\ RespAddr(Call(i)) # Call(i).ptr

(***************************************************************************)
(* C5.  For an input that is not well-formed UTF-8 the call returns as     *)
(* usual and the embedded portion of its response is the placeholder {},   *)
(* whatever the bytes were.                                                *)
(***************************************************************************)
C5_InvalidGivesPlaceholder ==
    \A i \in DOMAIN calls :
        ~ValidUtf8(Call(i).input) =>
            /\ Embedded(Response(Call(i))) = <<123, 125>>
            /\ RespLen(Call(i)) = TemplateLen + 2

C5_Witness ==
    \E i \in DOMAIN calls :
        /\ Call(i).input = <<128>>
        /\ Embedded(Response(Call(i))) = <<123, 125>>

(***************************************************************************)
(* C6.  For a well-formed input s without a quote the embedded portion of  *)
(* the response is s, byte for byte, and the response is as long as the    *)
(* template plus s.                                                        *)
(***************************************************************************)
C6_NoQuoteEchoed ==
    \A i \in DOMAIN calls :
        (ValidUtf8(Call(i).input) /\ ~HasQuote(Call(i).input)) =>
            /\ Embedded(Response(Call(i))) = Call(i).input
            /\ RespLen(Call(i)) = TemplateLen + Len(Call(i).input)

C6_Witness ==
    \E i \in DOMAIN calls :
        /\ Call(i).input = AGrave
        /\ Embedded(Response(Call(i))) = AGrave
        /\ RespLen(Call(i)) = TemplateLen + 2

(***************************************************************************)
(* C7.  alloc(0) succeeds in every state and the address it returns is not *)
(* null; handle on a zero-length reference takes the input as the empty    *)
(* string: the embedded portion is empty (not {}), and the value returned  *)
(* decodes to the response as usual.                                       *)
(***************************************************************************)
C7_ZeroLength ==
    /\ AllocAddrs(0) # {}
    /\ \A a \in AllocAddrs(0) : a # 0
    /\ \A i \in DOMAIN buffers :
           (buffers[i].by = "alloc" /\ buffers[i].cap = 0) => buffers[i].ptr # 0
    /\ \A i \in DOMAIN calls :
           Call(i).len = 0 =>
               /\ Call(i).input = <<>>
               /\ RespLen(Call(i)) = TemplateLen
               /\ Embedded(Response(Call(i))) = <<>>
               /\ Response(Call(i)) = Prefix \o Suffix

C7_Witness ==
    \E i \in DOMAIN calls, j \in DOMAIN buffers :
        /\ buffers[j].by = "alloc"
        /\ buffers[j].cap = 0
        /\ Call(i).ptr = buffers[j].ptr
        /\ Call(i).len = 0
        /\ Embedded(Response(Call(i))) = <<>>

(***************************************************************************)
(* C8.  The packing checks no range.  It always yields a 64-bit value;     *)
(* when address and length both fit in 32 bits the value decodes to        *)
(* exactly that pair, and when either does not, the decoded pair is not    *)
(* the real one.                                                           *)
(***************************************************************************)
IsU64(x) == DOMAIN x = 1..4 /\ \A k \in 1..4 : x[k] \in 0..(Limb - 1)

C8_PackTruncates ==
    pk.done =>
        LET decoded == <<DecodeAddr(pk.ret), DecodeLen(pk.ret)>>
        IN  /\ IsU64(pk.ret)
            /\ (Fits32(pk.ptr) /\ Fits32(pk.len)) <=> decoded = <<pk.ptr, pk.len>>

C8_Witness ==
    /\ pk.done
    /\ ~Fits32(pk.ptr)
    /\ Fits32(pk.len)
    /\ DecodeAddr(pk.ret) # pk.ptr
    /\ DecodeLen(pk.ret) = pk.len

(***************************************************************************)
(* C9.  Linear memory only grows.  In every step the buffers returned so   *)
(* far stay as they are, each still reserved with its capacity; a step     *)
(* that returns a buffer returns exactly one, reserves exactly its cells,  *)
(* none of them reserved before, and changes no cell reserved before; a    *)
(* handle call that returns adds exactly one buffer; a step that returns   *)
(* no buffer (a write of the host, a failed allocation) reserves nothing.  *)
(***************************************************************************)
C9_Step ==
    /\ Len(buffers') >= Len(buffers)
    /\ SubSeq(buffers', 1, Len(buffers)) = buffers
    /\ DOMAIN mem \subseteq DOMAIN mem'
    /\ \A i \in DOMAIN buffers' :
           Region(buffers'[i].ptr, buffers'[i].cap) \subseteq DOMAIN mem'
    /\ buffers' # buffers =>
           LET new == buffers'[Len(buffers')]
               reg == Region(new.ptr, new.cap)
           IN  /\ Len(buffers') = Len(buffers) + 1
               /\ reg \cap DOMAIN mem = {}
               /\ DOMAIN mem' = DOMAIN mem \cup reg
               /\ \A a \in DOMAIN mem : mem'[a] = mem[a]
    /\ calls' # calls =>
           /\ Len(calls') = Len(calls) + 1
           /\ Len(buffers') = Len(buffers) + 1
    /\ buffers' = buffers => DOMAIN mem' = DOMAIN mem

C9_MemoryOnlyGrows == [][C9_Step]_vars

C9_Witness ==
    /\ Len(buffers) = 3
    /\ Len(calls) = 2
    /\ buffers[1].by = "alloc"
    /\ buffers[1].cap > 0
    /\ Cardinality(DOMAIN mem)
           = buffers[1].cap + buffers[2].cap + buffers[3].cap

====
